---- MODULE Spec2Model ----
(***************************************************************************)
(* The GreatFET libgreat command / transfer layer of libsigrok             *)
(* (hardware/greatfet/protocol.c): the blocking control transfer built on  *)
(* libusb's asynchronous API, the libgreat command executor, the bulk      *)
(* transfer pool and the configure / start / stop sequencing.              *)
(*                                                                         *)
(* The program is single threaded.  A frame variable records the position  *)
(* of each function that can block (ctl, exec, life); libusb and the       *)
(* device act only inside libusb_handle_events_completed, i.e. in the      *)
(* wait loop of the control transfer.                                      *)
(***************************************************************************)
EXTENDS Integers, Sequences, FiniteSets, TLC

(* ------------------------------------------------------------------ *)
(* Bounds of the model                                                 *)
(* ------------------------------------------------------------------ *)

\* GREATFET_TRANSFER_POOL_SIZE: number of slots of context->transfers.
GREATFET_TRANSFER_POOL_SIZE == 2

\* Number of libusb_transfer objects libusb_alloc_transfer can hand out to the
\* pool, and to the control transfers, before it returns NULL for lack of
\* memory.  The objects of the two callers are named from disjoint ranges.
MaxPoolObj == 2
MaxCtlObj == 2

(* ------------------------------------------------------------------ *)
(* Constants of libusb, errno and libsigrok used by the code           *)
(* ------------------------------------------------------------------ *)

LIBUSB_ERROR_IO == -1
LIBUSB_ERROR_INVALID_PARAM == -2
LIBUSB_ERROR_NOT_FOUND == -5
LIBUSB_ERROR_BUSY == -6
LIBUSB_ERROR_INTERRUPTED == -10
LIBUSB_ERROR_NO_MEM == -11
LIBUSB_ERROR_OTHER == -99

LIBUSB_TRANSFER_COMPLETED == 0
LIBUSB_TRANSFER_ERROR == 1
LIBUSB_TRANSFER_NO_DEVICE == 5

LIBUSB_ENDPOINT_IN == 128
LIBUSB_ENDPOINT_OUT == 0
LIBUSB_REQUEST_TYPE_VENDOR == 64
LIBUSB_RECIPIENT_ENDPOINT == 2

\* protocol.h: the libgreat vendor request and its "execute" value.
GREATFET_LIBGREAT_REQUEST_NUMBER == 101
GREATFET_LIBGREAT_VALUE_EXECUTE == 0
GREATFET_LIBGREAT_FLAG_SKIP_RESPONSE == 1

ENOMEM == 12
EIO == 5
SR_OK == 0
SR_ERR_IO == -11

\* A null pointer; object ids and handles are positive.
NULL == 0

\* A byte of memory that was never written.  Reading it yields any value
\* of Indeterminate.
Uninit == -1
Indeterminate == {0, 165}

(* ------------------------------------------------------------------ *)
(* Values the environment (libusb, the device) can produce             *)
(* ------------------------------------------------------------------ *)

\* Results of a rejected libusb_submit_transfer.
SubmitErrors == {LIBUSB_ERROR_IO, LIBUSB_ERROR_BUSY}

\* Genuine (non-interruption) errors of libusb_handle_events_completed.
EventErrors == {LIBUSB_ERROR_OTHER}

\* Status a completed control transfer can carry when its callback runs.
CompletionStatuses == {LIBUSB_TRANSFER_COMPLETED, LIBUSB_TRANSFER_ERROR}

\* The values an int that was never assigned can hold.
IndeterminateInt == {0, 165}

\* What the device answers to a configure command.
AchievedRates == {24000000}
DeviceBufferSizes == {16384}
DeviceEndpoints == {129, 130}

\* context->sample_rate and context->num_channels of the session.
SampleRates == {24000000, 25000000}
ChannelCounts == {8}

\* Callbacks the capture loop can hand to greatfet_prepare_transfers.
Callbacks == {"receive_transfer"}

PoolIds == 1..MaxPoolObj
CtlIds == (MaxPoolObj + 1)..(MaxPoolObj + MaxCtlObj)
ObjIds == PoolIds \cup CtlIds
Slots == 0..(GREATFET_TRANSFER_POOL_SIZE - 1)

(* ------------------------------------------------------------------ *)
(* Pure helpers                                                        *)
(* ------------------------------------------------------------------ *)

Min(S) == CHOOSE x \in S : \A y \in S : x <= y

\* Little-endian images of the integer fields on the wire / in memory.
LE16(x) == << x % 256, (x \div 256) % 256 >>
LE32(x) == << x % 256, (x \div 256) % 256, (x \div 65536) % 256, (x \div 16777216) % 256 >>

Take(s, n) == SubSeq(s, 1, IF n < Len(s) THEN n ELSE Len(s))

\* libusb_fill_control_setup: the 8 byte SETUP packet at the start of the buffer.
libusb_fill_control_setup(request_type, bRequest, wValue, wIndex, wLength) ==
    << request_type, bRequest >> \o LE16(wValue) \o LE16(wIndex) \o LE16(wLength)

\* The configure response as the device puts it on the wire (bit-exact, 9 bytes).
ConfigureResponseWire(rate, size, ep) == LE32(rate) \o LE32(size) \o << ep >>

\* sizeof(struct libgreat_configure_command_response): the struct is not packed,
\* so the uint8_t endpoint at offset 8 is followed by 3 bytes of padding.
SizeofConfigureResponse == 12
\* offsetof(struct libgreat_configure_command_response, endpoint)
OffsetofEndpoint == 8
\* sizeof(struct libgreat_configure_command_payload) (packed: u32 + u8)
SizeofConfigurePayload == 5

\* The data stages the device may return for an IN request of wLength bytes.
DeviceData(wLength) ==
    { Take(ConfigureResponseWire(r, b, e), wLength) :
        r \in AchievedRates, b \in DeviceBufferSizes, e \in DeviceEndpoints }

\* n bytes of memory nobody wrote yet.
Fresh(n) == [i \in 1..n |-> Uninit]

\* dst with its first Len(src) cells overwritten by src (memcpy into the stage).
Overwrite(dst, src) == [i \in 1..Len(dst) |-> IF i <= Len(src) THEN src[i] ELSE dst[i]]

(* ------------------------------------------------------------------ *)
(* State                                                               *)
(* ------------------------------------------------------------------ *)

VARIABLES
    devhdl,           \* connection->devhdl: the open handle (1)
    buffer,           \* context->buffer: the base (1) of the sample buffer
    live,             \* libusb_transfer objects allocated and not freed
    pending,          \* transfers submitted whose completion callback is still to come
    ctlOwned,         \* ghost: live objects that were allocated by sync_async_control_transfer
    ctl,              \* frame of sync_async_control_transfer
    exec,             \* frame of greatfet_execute_libgreat_command
    life,             \* frame of greatfet_configure / start_acquire / stop_acquire
    response_buffer,  \* the caller's memory handed to an IN control transfer
    transfers,        \* context->transfers[]: NULL or an object id
    bind,             \* what libusb_fill_bulk_transfer wrote into each live object
    endpoint,         \* context->endpoint (and context->la_endpoint)
    sample_rate,      \* context->sample_rate
    claimed,          \* interface 1 is claimed
    fault,            \* "none", or the memory error that ended the process
    last              \* ghost: the public call that returned last, with its result
                      \* (cleared when the next call begins)

session == << devhdl, buffer >>
heap == << live, pending, ctlOwned >>
pool == << transfers, bind >>
context == << endpoint, sample_rate, claimed >>

vars == << devhdl, buffer, live, pending, ctlOwned, ctl, exec, life, response_buffer,
           transfers, bind, endpoint, sample_rate, claimed, fault, last >>

(* ------------------------------------------------------------------ *)
(* Frames                                                              *)
(* ------------------------------------------------------------------ *)

\* struct libgreat_command_packet, with the class and verb kept by name.
NoCmd == [class_number |-> "", verb_number |-> "", payload |-> << >>, payload_length |-> 0]

\* How a control transfer call ended (ghost summary handed to the caller).
NoEnd == [how |-> "none", ret |-> 0, devdata |-> << >>, transfer |-> NULL]

IdleCtl ==
    [pc |-> "idle", caller |-> "none", dev_handle |-> NULL, request_type |-> 0,
     wIndex |-> 0, wLength |-> 0, data |-> NULL, out |-> NoCmd,
     transfer |-> NULL, setup |-> << >>, stage |-> << >>, completed |-> 0,
     rc |-> 0, wrc |-> 0, status |-> 0, how |-> "none", devdata |-> << >>, ret |-> 0]

IdleExec ==
    [pc |-> "idle", caller |-> "none", cmd |-> NoCmd, rml |-> 0, flags |-> 0,
     command_length |-> 0, calls |-> << >>, outEnd |-> NoEnd, inEnd |-> NoEnd, ret |-> 0]

IdleLife ==
    [pc |-> "idle", op |-> "none", issued |-> << >>, cfgOut |-> NoEnd, cfgIn |-> NoEnd]

NoLast == [op |-> "none", ret |-> 0, defined |-> TRUE, objs |-> << >>]

IsIn(request_type) == (request_type \div LIBUSB_ENDPOINT_IN) % 2 = 1

\* The summary of a returned control transfer.
EndOf(c) == [how |-> c.how, ret |-> c.ret, devdata |-> c.devdata, transfer |-> c.transfer]

Running == fault = "none"

(* ------------------------------------------------------------------ *)
(* sync_async_control_transfer and sync_transfer_wait_for_completion   *)
(* ------------------------------------------------------------------ *)

\* libusb_alloc_transfer: NULL, or a fresh object (of the range ids).
FreeIds(ids) == ids \ (live \cup pending)
libusb_alloc_transfer(ids) ==
    {NULL} \cup (IF FreeIds(ids) = {} THEN {} ELSE {Min(FreeIds(ids))})

\* A call of sync_async_control_transfer(dev_handle, request_type, ..., data, wLength).
CtlCall(caller, dev_handle, request_type, wIndex, data, out, wLength) ==
    [IdleCtl EXCEPT !.pc = "entry", !.caller = caller, !.dev_handle = dev_handle,
                    !.request_type = request_type, !.wIndex = wIndex, !.data = data,
                    !.out = out, !.wLength = wLength]

\* Lines 116-119: a null device handle is refused before anything is allocated.
CtlNullHandle ==
    /\ ctl.dev_handle = NULL
    /\ ctl' = [ctl EXCEPT !.pc = "ret", !.ret = LIBUSB_ERROR_INVALID_PARAM, !.how = "param"]
    /\ UNCHANGED << heap, fault >>

\* Lines 128-133: libusb_alloc_transfer failed.
CtlAllocFails ==
    /\ ctl.dev_handle # NULL
    /\ NULL \in libusb_alloc_transfer(CtlIds)
    /\ ctl' = [ctl EXCEPT !.pc = "ret", !.ret = LIBUSB_ERROR_NO_MEM, !.how = "nomem"]
    /\ UNCHANGED << heap, fault >>

\* Lines 135-140: malloc of the scratch buffer failed; the function returns
\* without releasing the transfer object allocated on line 128.
CtlMallocFails ==
    /\ ctl.dev_handle # NULL
    /\ \E t \in libusb_alloc_transfer(CtlIds) \ {NULL} :
          /\ live' = live \cup {t}
          /\ ctlOwned' = ctlOwned \cup {t}
          /\ ctl' = [ctl EXCEPT !.pc = "ret", !.ret = LIBUSB_ERROR_NO_MEM, !.how = "nomem",
                                !.transfer = t]
    /\ UNCHANGED << pending, fault >>

\* Lines 120-122 and 147-150: a null data pointer is only logged; the OUT
\* memcpy then reads wLength bytes through the null pointer.
CtlNullDataTrap ==
    /\ ctl.dev_handle # NULL
    /\ ~IsIn(ctl.request_type) /\ ctl.data = NULL /\ ctl.wLength > 0
    /\ \E t \in libusb_alloc_transfer(CtlIds) \ {NULL} :
          /\ live' = live \cup {t}
          /\ ctlOwned' = ctlOwned \cup {t}
          /\ ctl' = [ctl EXCEPT !.pc = "trap", !.transfer = t,
                                !.stage = Fresh(ctl.wLength + 1)]
    /\ fault' = "null_deref"
    /\ UNCHANGED pending

\* Lines 128-159: allocate, fill the SETUP packet and the data stage, submit.
CtlSubmit ==
    /\ ctl.dev_handle # NULL
    /\ IsIn(ctl.request_type) \/ ctl.data # NULL \/ ctl.wLength = 0
    /\ \E t \in libusb_alloc_transfer(CtlIds) \ {NULL}, rc \in {0} \cup SubmitErrors :
          /\ live' = live \cup {t}
          /\ ctlOwned' = ctlOwned \cup {t}
          /\ pending' = IF rc = 0 THEN pending \cup {t} ELSE pending
          /\ ctl' = [ctl EXCEPT
                !.pc = "wait", !.transfer = t, !.rc = rc, !.completed = 0,
                !.how = IF rc = 0 THEN "inflight" ELSE "submit",
                !.setup = libusb_fill_control_setup(ctl.request_type,
                              GREATFET_LIBGREAT_REQUEST_NUMBER,
                              GREATFET_LIBGREAT_VALUE_EXECUTE, ctl.wIndex, ctl.wLength),
                !.stage = Fresh(ctl.wLength + 1)]
    /\ UNCHANGED fault

CtlEntry ==
    /\ Running /\ ctl.pc = "entry"
    /\ \/ CtlNullHandle
       \/ CtlAllocFails
       \/ CtlMallocFails
       \/ CtlNullDataTrap
       \/ CtlSubmit
    /\ UNCHANGED << session, exec, life, response_buffer, pool, context, last >>

\* One pass of the wait loop in which libusb runs the completion callback of
\* this transfer (greatfet_libusb_transfer_complete_cb sets the flag).
WaitCompleted ==
    /\ ctl.transfer \in pending
    /\ \E st \in CompletionStatuses, d \in DeviceData(ctl.wLength) :
          LET got == IsIn(ctl.request_type) /\ st = LIBUSB_TRANSFER_COMPLETED IN
          ctl' = [ctl EXCEPT
                !.wrc = 0, !.completed = 1, !.status = st,
                !.how = IF st = LIBUSB_TRANSFER_COMPLETED THEN "ok" ELSE "status",
                !.devdata = IF got THEN d ELSE << >>,
                !.stage = IF got THEN Overwrite(ctl.stage, d) ELSE ctl.stage,
                !.pc = "finish"]
    /\ pending' = pending \ {ctl.transfer}

\* libusb_handle_events_completed was interrupted: the loop goes round again.
WaitInterrupted ==
    /\ ctl' = [ctl EXCEPT !.wrc = LIBUSB_ERROR_INTERRUPTED]
    /\ UNCHANGED pending

\* libusb_handle_events_completed returned 0 without completing this transfer
\* (a timeout elapsed, or it served other transfers).
WaitNothing ==
    /\ ctl' = [ctl EXCEPT !.wrc = 0]
    /\ UNCHANGED pending

\* A genuine event-processing error: cancel the transfer and leave the loop.
\* The cancellation is asynchronous: the callback of a submitted transfer is
\* still to come.
WaitEventError ==
    /\ \E e \in EventErrors :
          ctl' = [ctl EXCEPT !.wrc = e, !.pc = "finish",
                             !.how = IF ctl.rc < 0 THEN "submit" ELSE "event"]
    /\ UNCHANGED pending

\* The handle was closed under the transfer: libusb cleared transfer->dev_handle
\* and will not call back; the loop forces the status and the flag.
WaitDeviceGone ==
    /\ ctl.transfer \in pending
    /\ ctl' = [ctl EXCEPT !.wrc = 0, !.status = LIBUSB_TRANSFER_NO_DEVICE,
                          !.completed = 1, !.how = "removed", !.pc = "finish"]
    /\ pending' = pending \ {ctl.transfer}

\* sync_transfer_wait_for_completion, one pass of its while loop.
CtlWait ==
    /\ Running /\ ctl.pc = "wait" /\ ctl.completed = 0
    /\ \/ WaitCompleted
       \/ WaitInterrupted
       \/ WaitNothing
       \/ WaitEventError
       \/ WaitDeviceGone
    /\ UNCHANGED << session, live, ctlOwned, exec, life, response_buffer, pool, context,
                    fault, last >>

\* The value sync_async_control_transfer returns (line 178).
CtlReturnValue(c) == c.rc

\* Lines 169-172: what the IN memcpy reads: wLength bytes from transfer->buffer,
\* which starts with the SETUP packet.
CtlCopySource(c) == Take(c.setup \o c.stage, c.wLength)

\* Lines 174-176: the objects still allocated after the two frees.
CtlLiveAfterFree(objs, t) == objs \ {t}

\* Lines 169-178: copy back for an IN request, free the scratch buffer and the
\* transfer, return.
CtlFinish ==
    /\ Running /\ ctl.pc = "finish"
    /\ IF IsIn(ctl.request_type) /\ ctl.data = NULL /\ ctl.wLength > 0
       THEN /\ fault' = "null_deref"
            /\ ctl' = [ctl EXCEPT !.pc = "trap"]
            /\ UNCHANGED << live, ctlOwned, response_buffer >>
       ELSE /\ response_buffer' = IF IsIn(ctl.request_type)
                                  THEN Overwrite(response_buffer, CtlCopySource(ctl))
                                  ELSE response_buffer
            /\ live' = CtlLiveAfterFree(live, ctl.transfer)
            /\ ctlOwned' = CtlLiveAfterFree(ctlOwned, ctl.transfer)
            /\ ctl' = [ctl EXCEPT !.pc = "ret", !.ret = CtlReturnValue(ctl),
                                  !.setup = << >>, !.stage = << >>]
            /\ UNCHANGED fault
    /\ UNCHANGED << session, pending, exec, life, pool, context, last >>

(* ------------------------------------------------------------------ *)
(* greatfet_execute_libgreat_command                                   *)
(* ------------------------------------------------------------------ *)

RequestTypeOut == LIBUSB_ENDPOINT_OUT + LIBUSB_REQUEST_TYPE_VENDOR + LIBUSB_RECIPIENT_ENDPOINT
RequestTypeIn == LIBUSB_ENDPOINT_IN + LIBUSB_REQUEST_TYPE_VENDOR + LIBUSB_RECIPIENT_ENDPOINT

\* A call of greatfet_execute_libgreat_command(device, &cmd, response_buffer, rml, timeout).
ExecCall(caller, cmd, rml) ==
    [IdleExec EXCEPT !.pc = "entry", !.caller = caller, !.cmd = cmd, !.rml = rml]

\* The first command_length bytes of the packet: class, verb, then payload.
CommandImage(cmd, command_length) ==
    [cmd EXCEPT !.payload = Take(cmd.payload, command_length - 8)]

\* Lines 197-223: compute the length and the flags, send the command.
ExecEntry ==
    /\ Running /\ exec.pc = "entry" /\ ctl.pc = "idle"
    /\ LET command_length == (exec.cmd.payload_length + 8) % 65536
           flags == IF exec.rml = 0 THEN GREATFET_LIBGREAT_FLAG_SKIP_RESPONSE ELSE 0
       IN /\ exec' = [exec EXCEPT !.pc = "out", !.flags = flags,
                                  !.command_length = command_length,
                                  !.calls = << "OUT" >>]
          /\ ctl' = CtlCall("exec", devhdl, RequestTypeOut, flags, 1,
                            CommandImage(exec.cmd, command_length), command_length)
    /\ UNCHANGED << session, heap, life, response_buffer, pool, context, fault, last >>

\* Line 224: the test that decides whether the outbound stage failed.
OutboundFailed(c) == c.ret < 0

\* The test of line 238 with the early return lost: a response is always read.
NoResponseWanted_AlwaysReads(e) == FALSE

\* Line 238: the test that decides whether a response is read.
NoResponseWanted(e) == e.rml = 0

\* Lines 224-255: after the outbound stage: give up, finish, or read the response.
ExecAfterOut ==
    /\ Running /\ exec.pc = "out" /\ ctl.pc = "ret"
    /\ IF OutboundFailed(ctl)
       THEN /\ exec' = [exec EXCEPT !.pc = "ret", !.ret = ctl.ret, !.outEnd = EndOf(ctl)]
            /\ ctl' = IdleCtl
       ELSE IF NoResponseWanted(exec)
       THEN /\ exec' = [exec EXCEPT !.pc = "ret", !.ret = 0, !.outEnd = EndOf(ctl)]
            /\ ctl' = IdleCtl
       ELSE /\ exec' = [exec EXCEPT !.pc = "in", !.outEnd = EndOf(ctl),
                                    !.calls = Append(exec.calls, "IN")]
            /\ ctl' = CtlCall("exec", devhdl, RequestTypeIn, 0, 1, NoCmd, exec.rml)
    /\ UNCHANGED << session, heap, life, response_buffer, pool, context, fault, last >>

\* Lines 247-259: the result of the inbound stage is the result of the command.
ExecAfterIn ==
    /\ Running /\ exec.pc = "in" /\ ctl.pc = "ret"
    /\ exec' = [exec EXCEPT !.pc = "ret", !.ret = ctl.ret, !.inEnd = EndOf(ctl)]
    /\ ctl' = IdleCtl
    /\ UNCHANGED << session, heap, life, response_buffer, pool, context, fault, last >>

(* ------------------------------------------------------------------ *)
(* greatfet_configure, greatfet_start_acquire, greatfet_stop_acquire   *)
(* ------------------------------------------------------------------ *)

\* Lines 419-432: the configure packet for context->sample_rate / num_channels.
ConfigurePacket(sample_rate_hz, num_channels) ==
    [class_number |-> "GREATFET_CLASS_LA", verb_number |-> "GREATFET_LA_VERB_CONFIGURE",
     payload |-> LE32(sample_rate_hz) \o << num_channels % 256 >>,
     payload_length |-> SizeofConfigurePayload]

StartPacket ==
    [class_number |-> "GREATFET_CLASS_LA", verb_number |-> "GREATFET_LA_VERB_START",
     payload |-> << >>, payload_length |-> 0]

StopPacket ==
    [class_number |-> "GREATFET_CLASS_LA", verb_number |-> "GREATFET_LA_VERB_STOP",
     payload |-> << >>, payload_length |-> 0]

\* The values a read of one byte of memory can yield.
ReadByte(b) == IF b = Uninit THEN Indeterminate ELSE {b}

\* Lines 437-442: response.endpoint as decoded from the response buffer.
DecodedEndpoint(buf) == ReadByte(buf[OffsetofEndpoint + 1])

Idle == Running /\ life.pc = "idle" /\ exec.pc = "idle" /\ ctl.pc = "idle"

\* Lines 411-434: greatfet_configure, called directly or by greatfet_start_acquire,
\* up to its libgreat command.
ConfigureBegin(op) ==
    /\ Idle
    /\ life' = [IdleLife EXCEPT !.pc = "configure", !.op = op,
                                !.issued = << "GREATFET_LA_VERB_CONFIGURE" >>]
    /\ \E n \in ChannelCounts :
          exec' = ExecCall("configure", ConfigurePacket(sample_rate, n), SizeofConfigureResponse)
    /\ response_buffer' = Fresh(SizeofConfigureResponse)
    /\ last' = NoLast
    /\ UNCHANGED << session, heap, ctl, pool, context, fault >>

Configure == ConfigureBegin("configure")

StartAcquire == ConfigureBegin("start")

Finished(op, ret) == [NoLast EXCEPT !.op = op, !.ret = ret]

\* Line 459: the test start_acquire applies to the result of configure.
ConfigureFailed(rc) == rc < 0

\* Lines 435-446 (and 458-474 for start_acquire): record the endpoint, claim the
\* data interface, return rc; start_acquire then sends the start verb.
ConfigureEnd ==
    /\ Running /\ life.pc = "configure" /\ exec.pc = "ret"
    /\ \E ep \in DecodedEndpoint(response_buffer), claim \in {TRUE, claimed} :
          /\ endpoint' = ep
          /\ claimed' = claim
    /\ response_buffer' = << >>
    /\ IF life.op = "configure"
       THEN /\ last' = Finished("configure", exec.ret)
            /\ life' = IdleLife
            /\ exec' = IdleExec
       ELSE IF ConfigureFailed(exec.ret)
       THEN /\ last' = Finished("start", SR_ERR_IO)
            /\ life' = IdleLife
            /\ exec' = IdleExec
       ELSE /\ life' = [life EXCEPT !.pc = "start", !.cfgOut = exec.outEnd,
                                    !.cfgIn = exec.inEnd,
                                    !.issued = Append(life.issued, StartPacket.verb_number)]
            /\ exec' = ExecCall("start", StartPacket, 0)
            /\ UNCHANGED last
    /\ UNCHANGED << session, heap, ctl, pool, sample_rate, fault >>

\* Lines 478 and 516 with the mapping lost: the result is passed through.
MapResult_PassThrough(rc) == rc

\* Lines 478 and 516: (rc < 0) ? SR_ERR_IO : SR_OK
MapResult(rc) == IF rc < 0 THEN SR_ERR_IO ELSE SR_OK

\* Lines 476-478: map the result of the start command.
StartEnd ==
    /\ Running /\ life.pc = "start" /\ exec.pc = "ret"
    /\ last' = Finished("start", MapResult(exec.ret))
    /\ life' = IdleLife
    /\ exec' = IdleExec
    /\ UNCHANGED << session, heap, ctl, response_buffer, pool, context, fault >>

\* Lines 494-512: release the interface (the result is only logged), send stop.
StopAcquire ==
    /\ Idle
    /\ \E released \in {FALSE, claimed} : claimed' = released
    /\ life' = [IdleLife EXCEPT !.pc = "stop", !.op = "stop",
                                !.issued = << StopPacket.verb_number >>]
    /\ exec' = ExecCall("stop", StopPacket, 0)
    /\ last' = NoLast
    /\ UNCHANGED << session, heap, ctl, response_buffer, pool, endpoint, sample_rate, fault >>

\* Lines 514-516: map the result of the stop command.
StopEnd ==
    /\ Running /\ life.pc = "stop" /\ exec.pc = "ret"
    /\ last' = Finished("stop", MapResult(exec.ret))
    /\ life' = IdleLife
    /\ exec' = IdleExec
    /\ UNCHANGED << session, heap, ctl, response_buffer, pool, context, fault >>

(* ------------------------------------------------------------------ *)
(* The bulk transfer pool                                              *)
(* ------------------------------------------------------------------ *)

RECURSIVE SetToSortedSeq(_)
SetToSortedSeq(S) == IF S = {} THEN << >> ELSE << Min(S) >> \o SetToSortedSeq(S \ {Min(S)})

\* The non-null entries of a pool, in slot order.
RECURSIVE NonNullFrom(_, _)
NonNullFrom(p, i) ==
    IF i >= GREATFET_TRANSFER_POOL_SIZE THEN << >>
    ELSE (IF p[i] = NULL THEN << >> ELSE << p[i] >>) \o NonNullFrom(p, i + 1)

NonNull(p) == NonNullFrom(p, 0)

Range(s) == { s[i] : i \in 1..Len(s) }

\* context->transfers[] with every slot NULL.
EmptyPool == [i \in Slots |-> NULL]

Unbound == [endpoint |-> 0, buffer |-> << NULL, 0 >>, callback |-> "", bound |-> FALSE]

\* &context->buffer[i * GREATFET_TRANSFER_BUFFER_SIZE], as base and segment.
SlotBuffer(i) == << buffer, i >>
IsNullPtr(ptr) == ptr[1] = NULL /\ ptr[2] = 0

\* Line 321 with the allocation hoisted out of the loop: one object for all slots.
SlotObject_Shared(free, i) == free[1]

\* Line 321: slot i receives the object allocated in iteration i.
SlotObject(free, i) == free[i + 1]

\* Lines 322-328 with the test of the allocation lost: always success.
AllocateResult_IgnoresFailure(k) == 0

\* Lines 322-328: the result when k slots were allocated before the loop ended.
AllocateResult(k) == IF k = GREATFET_TRANSFER_POOL_SIZE THEN 0 ELSE ENOMEM

\* Lines 312-329: allocate slot after slot; stop at the first failure with ENOMEM.
\* k slots were allocated before the failure (k = pool size: none failed).
greatfet_allocate_transfers ==
    /\ Idle
    /\ LET free == SetToSortedSeq(FreeIds(PoolIds)) IN
       \E k \in 0..GREATFET_TRANSFER_POOL_SIZE :
          /\ k <= Len(free)
          /\ transfers' = [i \in Slots |-> IF i < k THEN SlotObject(free, i)
                                            ELSE IF i = k THEN NULL ELSE transfers[i]]
          /\ live' = live \cup { free[j] : j \in 1..k }
          /\ bind' = [o \in ObjIds |-> IF o \in { free[j] : j \in 1..k } THEN Unbound ELSE bind[o]]
          /\ last' = [NoLast EXCEPT !.op = "allocate", !.objs = SubSeq(free, 1, k),
                         !.ret = AllocateResult(k)]
    /\ UNCHANGED << session, pending, ctlOwned, ctl, exec, life, response_buffer, context, fault >>

\* Lines 345-354: libusb_fill_bulk_transfer for slot i.
FillBulk(i, callback) ==
    [endpoint |-> endpoint, buffer |-> SlotBuffer(i), callback |-> callback, bound |-> TRUE]

\* Lines 334-369: fill and submit slot after slot; k slots were submitted before
\* the loop ended (k = pool size: all of them).  A NULL slot is dereferenced.
greatfet_prepare_transfers ==
    /\ Idle
    /\ \E callback \in Callbacks, k \in 0..GREATFET_TRANSFER_POOL_SIZE :
          /\ \A i \in Slots : i < k =>
                /\ transfers[i] # NULL
                /\ ~IsNullPtr(SlotBuffer(i))
                /\ transfers[i] \notin pending
          /\ LET trapped == k < GREATFET_TRANSFER_POOL_SIZE /\ transfers[k] = NULL
                 filled == { i \in Slots : i <= k /\ transfers[i] # NULL }
                 ret == IF k = GREATFET_TRANSFER_POOL_SIZE THEN 0
                        ELSE IF IsNullPtr(SlotBuffer(k)) THEN ENOMEM ELSE EIO
             IN /\ fault' = IF trapped THEN "null_deref" ELSE fault
                /\ bind' = [o \in ObjIds |->
                              IF \E i \in filled : transfers[i] = o
                              THEN FillBulk(CHOOSE i \in filled : transfers[i] = o, callback)
                              ELSE bind[o]]
                /\ pending' = pending \cup { transfers[i] : i \in { j \in Slots : j < k } }
                /\ last' = IF trapped THEN last
                           ELSE [NoLast EXCEPT !.op = "prepare", !.ret = ret,
                                    !.objs = SubSeq(NonNull(transfers), 1, k)]
    /\ UNCHANGED << session, live, ctlOwned, ctl, exec, life, response_buffer, transfers,
                    context >>

\* libusb_cancel_transfer: only a submitted transfer can be cancelled.
libusb_cancel_transfer(o) == IF o \in pending THEN 0 ELSE LIBUSB_ERROR_NOT_FOUND

\* Lines 381-385 with a break after the first cancel request.
CancelTargets_FirstOnly(p) == Take(NonNull(p), 1)

\* Lines 381-385: the slots libusb_cancel_transfer is called on, in order.
CancelTargets(p) == NonNull(p)

\* Lines 375-387: request cancellation of every non-null slot; rc is assigned
\* only inside the loop.
greatfet_cancel_transfers ==
    /\ Idle
    /\ LET targets == CancelTargets(transfers) IN
       IF targets = << >>
       THEN \E garbage \in IndeterminateInt :
               last' = [NoLast EXCEPT !.op = "cancel", !.ret = garbage, !.defined = FALSE]
       ELSE last' = [NoLast EXCEPT !.op = "cancel", !.objs = targets,
                        !.ret = libusb_cancel_transfer(targets[Len(targets)])]
    /\ UNCHANGED << session, heap, ctl, exec, life, response_buffer, pool, context, fault >>

\* Line 401 lost: the slot keeps pointing at the freed transfer.
SlotAfterFree_Dangling(o) == o

\* Line 401: what a slot holds once its transfer was freed.
SlotAfterFree(o) == NULL

\* Lines 393-406: free every non-null slot and null it.
greatfet_free_transfers ==
    /\ Idle
    /\ LET targets == NonNull(transfers) IN
       /\ live' = live \ Range(targets)
       /\ fault' = IF \E j \in 1..Len(targets) : targets[j] \notin live
                   THEN "double_free" ELSE fault
       /\ transfers' = [i \in Slots |-> IF transfers[i] = NULL THEN NULL
                                         ELSE SlotAfterFree(transfers[i])]
       /\ bind' = [o \in ObjIds |-> IF o \in Range(targets) THEN Unbound ELSE bind[o]]
       /\ last' = [NoLast EXCEPT !.op = "free", !.objs = targets, !.ret = 0]
    /\ UNCHANGED << session, pending, ctlOwned, ctl, exec, life, response_buffer, context >>

(* ------------------------------------------------------------------ *)
(* libusb delivering the completion of another transfer                *)
(* ------------------------------------------------------------------ *)

\* libusb_handle_events (in the wait loop, or in the session's event loop while
\* no call is running) runs the callback of a submitted transfer other than the
\* one being waited for.  For a transfer that was freed meanwhile the callback
\* works on released memory.
TransferCallback ==
    /\ Running
    /\ \/ Idle
       \/ ctl.pc = "wait" /\ ctl.completed = 0
    /\ \E o \in pending :
          /\ ~(ctl.pc = "wait" /\ o = ctl.transfer)
          /\ pending' = pending \ {o}
          /\ fault' = IF o \in live THEN fault ELSE "use_after_free"
    /\ UNCHANGED << session, live, ctlOwned, ctl, exec, life, response_buffer, pool,
                    context, last >>

(* ------------------------------------------------------------------ *)
(* Specification of the driver                                         *)
(* ------------------------------------------------------------------ *)

Init ==
    /\ devhdl = 1
    /\ buffer = 1
    /\ live = {}
    /\ pending = {}
    /\ ctlOwned = {}
    /\ ctl = IdleCtl
    /\ exec = IdleExec
    /\ life = IdleLife
    /\ response_buffer = << >>
    /\ transfers = EmptyPool
    /\ bind = [o \in ObjIds |-> Unbound]
    /\ endpoint = 0
    /\ sample_rate \in SampleRates
    /\ claimed = FALSE
    /\ fault = "none"
    /\ last = NoLast

Next ==
    \/ Configure
    \/ StartAcquire
    \/ StopAcquire
    \/ ConfigureEnd
    \/ StartEnd
    \/ StopEnd
    \/ ExecEntry
    \/ ExecAfterOut
    \/ ExecAfterIn
    \/ CtlEntry
    \/ CtlWait
    \/ CtlFinish
    \/ greatfet_allocate_transfers
    \/ greatfet_prepare_transfers
    \/ greatfet_cancel_transfers
    \/ greatfet_free_transfers
    \/ TransferCallback

Spec == Init /\ [][Next]_vars

(* ------------------------------------------------------------------ *)
(* The control transfer on its own, for every argument combination     *)
(* ------------------------------------------------------------------ *)

\* wLength of the direct calls.
DirectLengths == {0, 2}

\* sync_async_control_transfer(dev_handle, request_type, ..., data, wLength) with
\* any device handle, direction, data pointer and length.
DirectCall ==
    /\ Idle
    /\ \E h \in {NULL, devhdl}, rt \in {RequestTypeOut, RequestTypeIn}, data \in {NULL, 1},
          wLength \in DirectLengths :
          /\ ctl' = CtlCall("direct", h, rt, 0, data, NoCmd, wLength)
          /\ response_buffer' = IF data = NULL THEN << >> ELSE Fresh(wLength)
    /\ last' = NoLast
    /\ UNCHANGED << session, heap, exec, life, pool, context, fault >>

DirectReturn ==
    /\ Running /\ ctl.pc = "ret" /\ ctl.caller = "direct"
    /\ last' = Finished("control", ctl.ret)
    /\ ctl' = IdleCtl
    /\ response_buffer' = << >>
    /\ UNCHANGED << session, heap, exec, life, pool, context, fault >>

NextCtl ==
    \/ DirectCall
    \/ CtlEntry
    \/ CtlWait
    \/ CtlFinish
    \/ DirectReturn
    \/ TransferCallback

SpecCtl == Init /\ [][NextCtl]_vars

(* ------------------------------------------------------------------ *)
(* The two layers of the driver on their own                           *)
(* ------------------------------------------------------------------ *)

\* The lifecycle layer with the command executor and the control transfer
\* below it; the bulk pool is not touched.
NextLife ==
    \/ Configure
    \/ StartAcquire
    \/ StopAcquire
    \/ ConfigureEnd
    \/ StartEnd
    \/ StopEnd
    \/ ExecEntry
    \/ ExecAfterOut
    \/ ExecAfterIn
    \/ CtlEntry
    \/ CtlWait
    \/ CtlFinish
    \/ TransferCallback

SpecLife == Init /\ [][NextLife]_vars

\* A session whose sample buffer (context->buffer) may not have been allocated,
\* and whose endpoint is whatever an earlier configure recorded.
InitPool ==
    /\ devhdl = 1
    /\ buffer \in {NULL, 1}
    /\ live = {}
    /\ pending = {}
    /\ ctlOwned = {}
    /\ ctl = IdleCtl
    /\ exec = IdleExec
    /\ life = IdleLife
    /\ response_buffer = << >>
    /\ transfers = EmptyPool
    /\ bind = [o \in ObjIds |-> Unbound]
    /\ endpoint \in DeviceEndpoints
    /\ sample_rate \in SampleRates
    /\ claimed = FALSE
    /\ fault = "none"
    /\ last = NoLast

\* The bulk transfer pool, with libusb delivering completions in between.
NextPool ==
    \/ greatfet_allocate_transfers
    \/ greatfet_prepare_transfers
    \/ greatfet_cancel_transfers
    \/ greatfet_free_transfers
    \/ TransferCallback

SpecPool == InitPool /\ [][NextPool]_vars

(* ------------------------------------------------------------------ *)
(* Claims                                                              *)
(* ------------------------------------------------------------------ *)

\* The control transfer really went through: its callback ran with status
\* LIBUSB_TRANSFER_COMPLETED.
Succeeded(e) == e.how = "ok"

\* The control transfer was made and did not go through.
FailedStage(e) == e.how \notin {"none", "ok"}

\* C1: a call of execute_command makes one control transfer (the outbound one)
\* when response_max_length = 0, two (outbound, then inbound) when
\* response_max_length > 0 and the outbound stage succeeded, and never more
\* than two.
C1_TransferCount ==
    /\ Len(exec.calls) <= 2
    /\ exec.pc = "ret" =>
          /\ exec.rml = 0 => exec.calls = << "OUT" >>
          /\ (exec.rml > 0 /\ Succeeded(exec.outEnd)) => exec.calls = << "OUT", "IN" >>

\* A command with a response returned after its outbound and its inbound transfer.
C1_Witness ==
    /\ exec.pc = "ret" /\ exec.rml > 0
    /\ Succeeded(exec.outEnd) /\ Succeeded(exec.inEnd)
    /\ exec.calls = << "OUT", "IN" >>

\* C2: whenever the outbound control transfer of execute_command fails, the
\* command returns that (negative) error, makes no inbound transfer and does
\* not repeat the outbound one.
C2_OutboundFailureStops ==
    (exec.pc \in {"in", "ret"} /\ FailedStage(exec.outEnd)) =>
        /\ exec.pc = "ret"
        /\ exec.ret < 0
        /\ exec.ret = exec.outEnd.ret
        /\ exec.calls = << "OUT" >>

\* C3: with response_max_length > 0 and both stages successful, execute_command
\* returns the number of bytes the device sent and the response buffer holds
\* exactly those bytes; on failure it returns a negative code.
C3_ReturnsReceivedLength ==
    (exec.pc = "ret" /\ exec.rml > 0) =>
        IF Succeeded(exec.outEnd) /\ Succeeded(exec.inEnd)
        THEN /\ exec.ret = Len(exec.inEnd.devdata)
             /\ exec.ret <= exec.rml
             /\ Take(response_buffer, Len(exec.inEnd.devdata)) = exec.inEnd.devdata
        ELSE exec.ret < 0

\* C4: when the device handle of the transfer becomes null during the wait, the
\* loop forces the no-device status and the flag, ends, and the control
\* transfer returns a (negative) device-removed error.
C4_DeviceRemovedReported ==
    ctl.how = "removed" =>
        /\ ctl.status = LIBUSB_TRANSFER_NO_DEVICE
        /\ ctl.completed = 1
        /\ ctl.pc \in {"finish", "ret"}
        /\ ctl.pc = "ret" => ctl.ret < 0

\* A transport error of a control transfer: at submission, or as the status of
\* the completed transfer.
TransportError(e) == e.how \in {"submit", "status"}

\* C5: when a control transfer of start_acquire's configure reports a transport
\* error, start_acquire returns SR_ERR_IO without sending the start verb; a
\* negative result of the start command is mapped to SR_ERR_IO as well.
C5_StartOnlyAfterConfigure ==
    [][ /\ ( /\ life.op = "start" /\ life.pc = "configure" /\ exec.pc = "ret"
             /\ TransportError(exec.outEnd) \/ TransportError(exec.inEnd) )
           => ( /\ life'.pc = "idle"
                /\ last'.op = "start" /\ last'.ret = SR_ERR_IO
                /\ exec'.pc = "idle" )
        /\ ( life.pc = "start" /\ exec.pc = "ret" /\ exec.ret < 0 )
           => ( last'.op = "start" /\ last'.ret = SR_ERR_IO )
      ]_vars

\* C6: after a configure whose response carries endpoint E, context->endpoint
\* is E; prepare_transfers then binds every slot it submits to context->endpoint,
\* to its own buffer segment and to the callback it was given.
C6_EndpointRecordedAndBound ==
    [][ /\ ( /\ life.pc = "configure" /\ exec.pc = "ret"
             /\ Succeeded(exec.outEnd) /\ Succeeded(exec.inEnd) )
           => endpoint' = exec.inEnd.devdata[OffsetofEndpoint + 1]
        /\ greatfet_prepare_transfers
           => \A i \in Slots : transfers[i] \in pending' \ pending =>
                 /\ bind'[transfers[i]].endpoint = endpoint
                 /\ bind'[transfers[i]].buffer = << buffer, i >>
                 /\ bind'[transfers[i]].callback \in Callbacks
      ]_vars

NoDuplicates(seq) == \A i, j \in 1..Len(seq) : i # j => seq[i] # seq[j]

\* C7: free_transfers releases every non-null slot exactly once and nulls it;
\* on a pool with no allocated slot it releases nothing and changes nothing;
\* no transfer object is ever freed twice.
C7_FreeTransfersIdempotent ==
    /\ [](fault # "double_free")
    /\ [][ greatfet_free_transfers =>
             /\ transfers' = EmptyPool
             /\ last'.op = "free" /\ last'.ret = 0
             /\ NoDuplicates(last'.objs)
             /\ Range(last'.objs) = { transfers[i] : i \in Slots } \ {NULL}
             /\ Range(last'.objs) \subseteq live
             /\ live' = live \ Range(last'.objs)
             /\ transfers = EmptyPool => (last'.objs = << >> /\ live' = live)
         ]_vars

\* free_transfers has just released a fully allocated pool.
C7_Witness ==
    /\ last.op = "free" /\ last.ret = 0
    /\ Len(last.objs) = GREATFET_TRANSFER_POOL_SIZE
    /\ transfers = EmptyPool
    /\ live \cap PoolIds = {}

\* C8: cancel_transfers on a pool whose slots are all null requests no
\* cancellation and returns a well-defined value.
C8_CancelEmptyPoolDefined ==
    (last.op = "cancel" /\ transfers = EmptyPool) =>
        /\ last.objs = << >>
        /\ last.defined

\* C9: when the control transfer has returned, the transfer object and the
\* scratch buffer it allocated are released, on every exit path.
C9_NoLeakOnAnyPath ==
    ctl.pc = "ret" =>
        /\ ctlOwned = {}
        /\ ctl.transfer \notin live
        /\ ctl.setup = << >> /\ ctl.stage = << >>

\* C10: a control transfer called with a null device handle, or outbound with a
\* null data pointer, returns LIBUSB_ERROR_INVALID_PARAM at once: nothing is
\* allocated, nothing is submitted.
C10_NullArgumentsRefused ==
    ( /\ ctl.pc \notin {"idle", "entry"}
      /\ ctl.dev_handle = NULL \/ (~IsIn(ctl.request_type) /\ ctl.data = NULL) )
    => /\ ctl.pc = "ret"
       /\ ctl.ret = LIBUSB_ERROR_INVALID_PARAM
       /\ ctl.transfer = NULL
       /\ ctl.how = "param"
       /\ fault = "none"

\* C11: the caller's response buffer is written only by an inbound control
\* transfer that completed successfully; when the inbound transfer fails
\* (submission rejected, error status, event-processing error, device removed)
\* the step that ends the call leaves the response buffer unchanged.
C11_ResponseUntouchedOnFailure ==
    [][ ( /\ ctl.pc \in {"entry", "wait", "finish"}
          /\ IsIn(ctl.request_type)
          /\ ctl'.pc = "ret"
          /\ ~Succeeded(ctl') )
        => response_buffer' = response_buffer ]_vars

\* The transfer of the call in ctl has been submitted and its completion is
\* still to come.
InFlight(t) == t # NULL /\ t \in pending

\* C12: within one execute_command call the outbound control transfer has
\* reached a terminal state before the inbound one is submitted: the outbound
\* and the inbound transfer of the same call are never in flight together.
C12_NoOverlap ==
    exec.pc = "in" =>
        ~( /\ InFlight(exec.outEnd.transfer)
           /\ InFlight(ctl.transfer)
           /\ ctl.transfer # exec.outEnd.transfer )

\* The wait of the call ended on a genuine error of libusb_handle_events_completed.
EventFailure(e) == e.how = "event"

\* C13: when libusb_handle_events_completed reports a genuine error during the
\* wait, the loop exits and that error code is reported upward: the control
\* transfer returns it, and so does execute_command, instead of success.
C13_EventErrorPropagates ==
    /\ (ctl.pc = "ret" /\ EventFailure(ctl)) =>
          (ctl.wrc \in EventErrors /\ ctl.ret = ctl.wrc)
    /\ (exec.pc = "ret" /\ (EventFailure(exec.outEnd) \/ EventFailure(exec.inEnd))) =>
          exec.ret \in EventErrors

\* C14: allocate_transfers fills the slots in index order with fresh transfer
\* objects; when the allocation for slot i fails it returns ENOMEM, slots
\* 0..i-1 hold the objects just allocated, slot i is null and no slot above i
\* is touched; a free_transfers that follows (on a pool with nothing above i)
\* releases exactly the objects that were allocated.
C14_PartialAllocation ==
    /\ [][ greatfet_allocate_transfers =>
             LET objs == last'.objs
                 k == Len(objs)
             IN /\ last'.op = "allocate"
                /\ NoDuplicates(objs)
                /\ Range(objs) \cap live = {}
                /\ live' = live \cup Range(objs)
                /\ \A i \in Slots : i < k => transfers'[i] = objs[i + 1]
                /\ k = GREATFET_TRANSFER_POOL_SIZE => last'.ret = 0
                /\ k < GREATFET_TRANSFER_POOL_SIZE =>
                      /\ last'.ret = ENOMEM
                      /\ transfers'[k] = NULL
                      /\ \A i \in Slots : i > k => transfers'[i] = transfers[i]
         ]_vars
    /\ [][ ( /\ greatfet_free_transfers
             /\ last.op = "allocate"
             /\ \A i \in Slots : i > Len(last.objs) => transfers[i] = NULL )
           => ( /\ last'.objs = last.objs
                /\ live' = live \ Range(last.objs)
                /\ transfers' = EmptyPool )
         ]_vars

\* allocate_transfers failed at slot 1: slot 0 holds a live transfer, slot 1 is null.
C14_Witness ==
    /\ last.op = "allocate" /\ last.ret = ENOMEM
    /\ Len(last.objs) = 1
    /\ transfers[0] = last.objs[1] /\ transfers[0] \in live
    /\ transfers[1] = NULL

\* C15: in every reachable state of the pool each slot is null or refers to a
\* live (allocated, not freed) transfer object, and no two non-null slots
\* refer to the same object.
C15_SlotsDistinctAndLive ==
    /\ \A i \in Slots : transfers[i] = NULL \/ transfers[i] \in live
    /\ \A i, j \in Slots :
          (i # j /\ transfers[i] # NULL /\ transfers[j] # NULL) => transfers[i] # transfers[j]

\* A fully allocated pool whose transfers were all submitted by prepare_transfers.
C15_Witness ==
    /\ \A i \in Slots : transfers[i] # NULL /\ transfers[i] \in pending
    /\ last.op = "prepare" /\ last.ret = 0

\* The fields of the configure response the device put on the wire.
RECURSIVE FromLE(_)
FromLE(bytes) == IF bytes = << >> THEN 0 ELSE bytes[1] + 256 * FromLE(Tail(bytes))
WireRate(d) == FromLE(SubSeq(d, 1, 4))
WireEndpoint(d) == d[OffsetofEndpoint + 1]

\* C16: a successful configure records the fields of the decoded response in
\* the context: after it, the context's sample rate is the rate the device
\* achieved and the context's endpoint is the endpoint the device assigned
\* (the context of this source has no field for the buffer size).
C16_ResponseRecorded ==
    [][ ( /\ life.pc = "configure" /\ exec.pc = "ret"
          /\ Succeeded(exec.outEnd) /\ Succeeded(exec.inEnd)
          /\ exec.ret >= 0 )
        => ( /\ sample_rate' = WireRate(exec.inEnd.devdata)
             /\ endpoint' = WireEndpoint(exec.inEnd.devdata) )
      ]_vars

\* Lines 459, 478, 516: the test by which the lifecycle layer recognises a failed call.
ReportsFailure(rc) == rc < 0

\* C17: prepare_transfers reports an allocation error (ENOMEM) when the buffer
\* of a slot is unbound and an I/O error (EIO) when a submission fails, it
\* stops at the first failing slot, and the lifecycle layer recognises the
\* value it returns as an error.
C17_PrepareFailureReported ==
    [][ ( /\ greatfet_prepare_transfers
          /\ fault' = "none"
          /\ Len(last'.objs) < GREATFET_TRANSFER_POOL_SIZE )
        => LET k == Len(last'.objs) IN
           /\ last'.op = "prepare"
           /\ last'.ret = (IF IsNullPtr(SlotBuffer(k)) THEN ENOMEM ELSE EIO)
           /\ pending' = pending \cup { transfers[i] : i \in { j \in Slots : j < k } }
           /\ \A i \in Slots : (i > k /\ transfers[i] # NULL) =>
                 bind'[transfers[i]] = bind[transfers[i]]
           /\ ReportsFailure(last'.ret)
      ]_vars

\* C18: cancel_transfers requests one cancellation for each non-null slot and
\* none for a null slot; it is fire-and-forget: no slot is freed or nulled and
\* no transfer stops being in flight by it; when it issued a request, its
\* return value is the result of the last request, whatever the earlier ones
\* returned.
C18_CancelFireAndForget ==
    [][ greatfet_cancel_transfers =>
          /\ last'.op = "cancel"
          /\ last'.objs = NonNull(transfers)
          /\ NoDuplicates(last'.objs)
          /\ transfers' = transfers /\ bind' = bind
          /\ live' = live /\ pending' = pending
          /\ last'.objs # << >> =>
                /\ last'.defined
                /\ last'.ret = libusb_cancel_transfer(last'.objs[Len(last'.objs)])
      ]_vars

\* cancel_transfers returned 0, the result for the last slot, although the
\* request for the first slot had failed (its transfer had already completed).
C18_Witness ==
    /\ last.op = "cancel" /\ last.ret = 0
    /\ Len(last.objs) = GREATFET_TRANSFER_POOL_SIZE
    /\ libusb_cancel_transfer(last.objs[1]) = LIBUSB_ERROR_NOT_FOUND
    /\ last.objs[Len(last.objs)] \in pending
    /\ transfers = [i \in Slots |-> last.objs[i + 1]]

\* C19: stop_acquire releases the data interface and then executes the stop
\* command with no response expected; whether or not the release worked, the
\* stop command is issued, and the call returns SR_ERR_IO exactly when the
\* stop command returned a negative result and SR_OK otherwise.
C19_StopAcquire ==
    [][ /\ StopAcquire =>
              /\ claimed' \in {FALSE, claimed}
              /\ life'.op = "stop" /\ life'.issued = << "GREATFET_LA_VERB_STOP" >>
              /\ exec'.pc = "entry" /\ exec'.cmd = StopPacket /\ exec'.rml = 0
        /\ StopEnd =>
              /\ exec.calls = << "OUT" >>
              /\ last'.op = "stop"
              /\ exec.ret < 0 => last'.ret = SR_ERR_IO
              /\ exec.ret >= 0 => last'.ret = SR_OK
              /\ claimed' = claimed
      ]_vars

\* stop_acquire returned SR_OK although the interface is still claimed: the
\* release had failed and the stop command went through.
C19_Witness ==
    /\ last.op = "stop" /\ last.ret = SR_OK
    /\ claimed

\* libusb_submit_transfer rejected the transfer of the call: no completion
\* callback will be delivered for it.
SubmitRejected(c) == c.transfer # NULL /\ c.rc < 0

\* C20: a control transfer whose submission was rejected returns the
\* submission error without entering the wait loop, whose exit depends on the
\* completion flag that nobody will set.
C20_RejectedSubmitSkipsWait ==
    SubmitRejected(ctl) =>
        /\ ctl.pc # "wait"
        /\ ctl.pc = "ret" => ctl.ret = ctl.rc

\* The objects sync_async_control_transfer has released: allocated by it
\* (ids of its range) and no longer live.
Released(t) == t \in CtlIds /\ t \notin live

\* C21: the control transfer frees its transfer object and scratch buffer, and
\* returns (ending the life of its completion flag), only after the transfer
\* reached a terminal state: no released transfer is still in flight, and no
\* completion callback ever runs on released memory, also after the cancel
\* issued on an event-processing error.
C21_ReleasedOnlyWhenTerminal ==
    /\ \A t \in CtlIds : Released(t) => ~InFlight(t)
    /\ fault # "use_after_free"

\* C22: when the configure command fails (execute_command returns a negative
\* result), configure leaves the context unchanged: the recorded endpoint
\* keeps the value it had and is not overwritten from the response buffer the
\* command never filled.
C22_FailedConfigureKeepsContext ==
    [][ ( /\ life.pc = "configure" /\ exec.pc = "ret"
          /\ ReportsFailure(exec.ret) )
        => ( /\ endpoint' = endpoint
             /\ sample_rate' = sample_rate )
      ]_vars

\* C23: the data interface is claimed only by a configure whose command
\* succeeded: the interface becomes claimed at no other step, and a
\* start_acquire that returns SR_ERR_IO because configure failed has not
\* claimed it.
C23_ClaimOnlyAfterSuccess ==
    [][ /\ (claimed' /\ ~claimed) =>
              ( /\ life.pc = "configure" /\ exec.pc = "ret"
                /\ ~ReportsFailure(exec.ret) )
        /\ ( /\ life.op = "start" /\ life.pc = "configure" /\ exec.pc = "ret"
             /\ ReportsFailure(exec.ret) )
           => ( last'.ret = SR_ERR_IO /\ claimed' = claimed )
      ]_vars
====
